---- MODULE Spec2Model ----
(***************************************************************************)
(* Model of VibeCursor: the desktop front-end (src/frontend.py) with its   *)
(* GUI callbacks, macro recorder, audio-capture/transcription worker       *)
(* threads and macro player, and the transcription service (src/main.py).  *)
(* Every thread of the program is a process of the model; a step of the    *)
(* model is one statement (or one atomic library call) of one thread.      *)
(***************************************************************************)
EXTENDS Integers, Sequences, FiniteSets, TLC

\* ------------------------------------------------------------------ bounds
\* process_audio_flow threads that may be started (frontend.py:139)
MaxFlows == 2
\* chunks the PortAudio callbacks deliver in one run
MaxChunks == 2
\* wall clock ticks (time.time() in whole units)
MaxTime == 2
\* record_macro threads that may be started (frontend.py:180)
MaxSessions == 2
\* input events a listener thread may have waiting
MaxPending == 2
\* steps a macro may grow to
MaxMacro == 3
\* /transcribe requests the service receives
MaxRequests == 3

Flows == 1..MaxFlows

\* the value of an unset local / missing object
None == "none"

\* ------------------------------------------------------------------- state
VARIABLES
    macro,            \* frontend.py:26  list of recorded steps
    recording_flag,   \* frontend.py:27  recording_flag[0]
    audio_q,          \* frontend.py:28  queue.Queue of chunks
    listen_btn,       \* frontend.py:184 [text, state]
    copy_btn,         \* frontend.py:189 state
    status_lbl,       \* frontend.py:198 text
    txtbox,           \* frontend.py:193 content
    clipboard,        \* system clipboard (pyperclip)
    files,            \* temporary files of the client, by path (one per flow)
    flows,            \* the process_audio_flow threads
    nchunks,          \* chunks enqueued by the PortAudio callbacks so far
    now,              \* time.time()
    keys_held,        \* frontend.py:29  _keys_held
    sessions,         \* the record_macro threads with their two listeners
    history,          \* by: for each step of macro, the session that appended it;
                      \* latest: the session whose record_macro began last
    down,             \* the keys and buttons the user is holding down
    kill_inbox,       \* frontend.py:42  key events the kill listener has yet to handle
    exited,           \* os._exit(1) has ended the process (frontend.py:37)
    handlers,         \* main.py:25  the /transcribe requests being served
    server_tmp        \* temporary files of the service, by request

vars == <<macro, recording_flag, audio_q, listen_btn, copy_btn, status_lbl,
          txtbox, clipboard, files, flows, nchunks, now, keys_held, sessions,
          history, down, kill_inbox, exited, handlers, server_tmp>>

\* the user's keys and the process-wide kill listener
input == <<down, kill_inbox, exited>>

\* the state of the transcription service
srv == <<handlers, server_tmp>>

\* ------------------------------------------------------- widget constants
LISTEN    == "Listen"          \* frontend.py:130 idle label of the Listen button
RECORDING == "Recording"       \* frontend.py:137 recording label
NORMAL    == "normal"
DISABLED  == "disabled"

\* --------------------------------------------------- transcription client
\* What requests.post can bring back (frontend.py:68): no response at all (a
\* network failure raises), or a response with a status and a body that is a
\* JSON object (a set of <<key, value>> pairs) or not JSON.
NoResponse == [arrived |-> FALSE, ok |-> FALSE, isjson |-> FALSE, obj |-> {}]
Responses ==
    { [arrived |-> TRUE, ok |-> TRUE,  isjson |-> TRUE,  obj |-> {<<"text", "hello">>}],
      [arrived |-> TRUE, ok |-> TRUE,  isjson |-> TRUE,  obj |-> {<<"detail", "x">>}],
      [arrived |-> TRUE, ok |-> TRUE,  isjson |-> FALSE, obj |-> {}],
      [arrived |-> TRUE, ok |-> FALSE, isjson |-> TRUE,  obj |-> {<<"detail", "Transcription failed">>}],
      [arrived |-> TRUE, ok |-> FALSE, isjson |-> FALSE, obj |-> {}],
      NoResponse }

\* dict.get(key, default)
DictGet(obj, key, default) ==
    IF \E p \in obj : p[1] = key
    THEN (CHOOSE p \in obj : p[1] = key)[2]
    ELSE default

\* send_audio: the value returned, or the exception raised
send_audio(r) ==
    IF ~r.arrived THEN [raised |-> TRUE, val |-> ""]              \* requests.post raises
    ELSE IF r.ok
         THEN IF r.isjson
              THEN [raised |-> FALSE, val |-> DictGet(r.obj, "text", "<err>")]
              ELSE [raised |-> TRUE, val |-> ""]                  \* r.json() raises
         ELSE [raised |-> FALSE, val |-> "<err>"]

\* ------------------------------------------------- process_audio_flow threads
NoStep == [t |-> 0, type |-> None, data |-> <<>>]

IdleFlow == [pc |-> "idle", frames |-> <<>>, r |-> NoResponse, sent |-> FALSE,
             txt |-> "", shown |-> FALSE, it |-> 0, step |-> NoStep, t0 |-> 0,
             snap |-> <<>>, inj |-> <<>>]

\* a thread that has ended keeps none of its locals: what is kept is whether it
\* got a reply to its upload and whether it displayed a transcript
EndFlow(fl, pc) == [IdleFlow EXCEPT !.pc = pc, !.sent = fl.sent, !.shown = fl.shown]

NoFile == [exists |-> FALSE, data |-> <<>>]

\* the input stream of record_until_toggle is open (the with block, line 53-58)
StreamOpen(f) == flows[f].pc \in {"while", "get", "exit"}

\* the thread is inside the capture loop of record_until_toggle (line 54-58)
InCaptureLoop(f) == flows[f].pc \in {"while", "get"}

\* the thread is executing play_macro (line 110-123)
InPlayMacro(f) == flows[f].pc \in {"iter", "wait"}

\* the thread has ended: returned, or died of an uncaught exception
Ended(f) == flows[f].pc \in {"done", "dead"}

SetFlow(f, r) == flows' = [flows EXCEPT ![f] = r]

\* line 143-144: NamedTemporaryFile(delete=False) creates an empty file that
\* stays on disk when the with block closes it
MakeTemp(f) ==
    /\ flows[f].pc = "tmp"
    /\ files' = [files EXCEPT ![f] = [exists |-> TRUE, data |-> <<>>]]
    /\ SetFlow(f, [flows[f] EXCEPT !.pc = "open"])
    /\ UNCHANGED <<macro, recording_flag, audio_q, listen_btn, copy_btn,
                   status_lbl, txtbox, clipboard, nchunks, now, keys_held, sessions, history, input, srv>>

\* line 52-53: frames = [] and the input stream opens
OpenStream(f) ==
    /\ flows[f].pc = "open"
    /\ SetFlow(f, [flows[f] EXCEPT !.pc = "while", !.frames = <<>>])
    /\ UNCHANGED <<macro, recording_flag, audio_q, listen_btn, copy_btn,
                   status_lbl, txtbox, clipboard, files, nchunks, now, keys_held, sessions, history, input, srv>>

\* line 53: sd.InputStream raises (no input device); nothing catches it and
\* the thread dies
OpenStreamFail(f) ==
    /\ flows[f].pc = "open"
    /\ SetFlow(f, EndFlow(flows[f], "dead"))
    /\ UNCHANGED <<macro, recording_flag, audio_q, listen_btn, copy_btn,
                   status_lbl, txtbox, clipboard, files, nchunks, now, keys_held, sessions, history, input, srv>>

\* line 46-48: the PortAudio thread of an open stream calls _audio_callback,
\* which enqueues the chunk when the flag is set
AudioCallback(f) ==
    /\ StreamOpen(f)
    /\ recording_flag
    /\ nchunks < MaxChunks
    /\ nchunks' = nchunks + 1
    /\ audio_q' = Append(audio_q, [src |-> f, n |-> nchunks + 1])
    /\ UNCHANGED <<macro, recording_flag, listen_btn, copy_btn, status_lbl,
                   txtbox, clipboard, files, flows, now, keys_held, sessions, history, input, srv>>

\* line 54: while recording_flag[0]
WhileFlag(f) ==
    /\ flows[f].pc = "while"
    /\ SetFlow(f, [flows[f] EXCEPT !.pc = IF recording_flag THEN "get" ELSE "exit"])
    /\ UNCHANGED <<macro, recording_flag, audio_q, listen_btn, copy_btn,
                   status_lbl, txtbox, clipboard, files, nchunks, now, keys_held, sessions, history, input, srv>>

\* line 56: frames.append(audio_q.get(timeout=0.1)), an item arrived in time
GetChunk(f) ==
    /\ flows[f].pc = "get"
    /\ audio_q # <<>>
    /\ audio_q' = Tail(audio_q)
    /\ SetFlow(f, [flows[f] EXCEPT !.pc = "while",
                                   !.frames = Append(@, Head(audio_q))])
    /\ UNCHANGED <<macro, recording_flag, listen_btn, copy_btn, status_lbl,
                   txtbox, clipboard, files, nchunks, now, keys_held, sessions, history, input, srv>>

\* line 57-58: the get timed out on an empty queue (queue.Empty is swallowed)
GetTimeout(f) ==
    /\ flows[f].pc = "get"
    /\ audio_q = <<>>
    /\ SetFlow(f, [flows[f] EXCEPT !.pc = "while"])
    /\ UNCHANGED <<macro, recording_flag, audio_q, listen_btn, copy_btn,
                   status_lbl, txtbox, clipboard, files, nchunks, now, keys_held, sessions, history, input, srv>>

\* line 58-63: the with block closes the stream; no frames: return False;
\* otherwise the concatenated frames are written to path and True is returned
EndCapture(f) ==
    /\ flows[f].pc = "exit"
    /\ IF flows[f].frames = <<>>
       THEN /\ SetFlow(f, [flows[f] EXCEPT !.pc = "cancel"])
            /\ UNCHANGED files
       ELSE /\ SetFlow(f, [flows[f] EXCEPT !.pc = "send", !.frames = <<>>])
            /\ files' = [files EXCEPT ![f] = [exists |-> TRUE, data |-> flows[f].frames]]
    /\ UNCHANGED <<macro, recording_flag, audio_q, listen_btn, copy_btn,
                   status_lbl, txtbox, clipboard, nchunks, now, keys_held, sessions, history, input, srv>>

\* line 145-148: record_until_toggle returned False
Cancelled(f) ==
    /\ flows[f].pc = "cancel"
    /\ listen_btn' = [listen_btn EXCEPT !.text = LISTEN]
    /\ status_lbl' = "Recording cancelled"
    /\ SetFlow(f, EndFlow(flows[f], "done"))
    /\ UNCHANGED <<macro, recording_flag, audio_q, copy_btn, txtbox, clipboard,
                   files, nchunks, now, keys_held, sessions, history, input, srv>>

\* line 149 (66-69): txt = send_audio(wav_path); an exception ends the thread
SendAudio(f, r) ==
    /\ flows[f].pc = "send"
    /\ LET res == send_audio(r)
       IN  IF res.raised
           THEN SetFlow(f, EndFlow([flows[f] EXCEPT !.sent = TRUE], "dead"))
           ELSE SetFlow(f, [flows[f] EXCEPT !.pc = "remove", !.r = r,
                                            !.sent = TRUE, !.txt = res.val])
    /\ UNCHANGED <<macro, recording_flag, audio_q, listen_btn, copy_btn,
                   status_lbl, txtbox, clipboard, files, nchunks, now, keys_held, sessions, history, input, srv>>

\* line 150: os.remove(wav_path)
RemoveWav(f) ==
    /\ flows[f].pc = "remove"
    /\ files' = [files EXCEPT ![f] = NoFile]
    /\ SetFlow(f, [flows[f] EXCEPT !.pc = "show"])
    /\ UNCHANGED <<macro, recording_flag, audio_q, listen_btn, copy_btn,
                   status_lbl, txtbox, clipboard, nchunks, now, keys_held, sessions, history, input, srv>>

\* line 152-155: the transcript replaces the content of the text box
ShowTranscript(f) ==
    /\ flows[f].pc = "show"
    /\ txtbox' = flows[f].txt
    /\ SetFlow(f, [flows[f] EXCEPT !.pc = "play", !.shown = TRUE])
    /\ UNCHANGED <<macro, recording_flag, audio_q, listen_btn, copy_btn,
                   status_lbl, clipboard, files, nchunks, now, keys_held, sessions, history, input, srv>>

\* play_macro without the test of line 111-112: the clipboard is set and
\* the iteration begun even when the macro is empty
PlayStartUnguarded(f) ==
    /\ flows[f].pc = "play"
    /\ clipboard' = flows[f].txt
    /\ SetFlow(f, [flows[f] EXCEPT !.pc = "iter", !.t0 = now, !.it = 0,
                                   !.snap = macro])
    /\ UNCHANGED <<macro, recording_flag, audio_q, listen_btn, copy_btn,
                   status_lbl, txtbox, files, nchunks, now, keys_held, sessions,
                   history, input, srv>>

\* line 110-114: play_macro(txt) begins; an empty macro returns at once,
\* otherwise the text goes to the clipboard, t0 is taken and the for loop
\* takes an iterator over the shared list
PlayStart(f) ==
    /\ flows[f].pc = "play"
    /\ IF macro = <<>>
       THEN /\ SetFlow(f, [flows[f] EXCEPT !.pc = "fin"])
            /\ UNCHANGED clipboard
       ELSE /\ clipboard' = flows[f].txt
            /\ SetFlow(f, [flows[f] EXCEPT !.pc = "iter", !.t0 = now, !.it = 0,
                                           !.snap = macro])
    /\ UNCHANGED <<macro, recording_flag, audio_q, listen_btn, copy_btn,
                   status_lbl, txtbox, files, nchunks, now, keys_held, sessions,
                   history, input, srv>>

\* line 115: for step in macro: the list iterator yields macro[it] while
\* it < len(macro), looking at the list as it is now
PlayNext(f) ==
    /\ flows[f].pc = "iter"
    /\ IF flows[f].it < Len(macro)
       THEN SetFlow(f, [flows[f] EXCEPT !.pc = "wait", !.it = @ + 1,
                                        !.step = macro[flows[f].it + 1]])
       ELSE SetFlow(f, [flows[f] EXCEPT !.pc = "fin", !.step = NoStep])
    /\ UNCHANGED <<macro, recording_flag, audio_q, listen_btn, copy_btn,
                   status_lbl, txtbox, clipboard, files, nchunks, now,
                   keys_held, sessions, history, input, srv>>

\* the pyautogui calls a step yields (line 118-123)
Injection(step, at) ==
    IF step.type = "mouse" THEN <<[op |-> "moveTo+click", data |-> step.data, at |-> at]>>
    ELSE IF step.type = "hotkey" THEN <<[op |-> "hotkey", data |-> step.data, at |-> at]>>
    ELSE <<>>

\* play_macro without the wait of line 116-117: the step is injected as soon
\* as the iterator yields it
PlayInjectAtOnce(f) ==
    /\ flows[f].pc = "wait"
    /\ SetFlow(f, [flows[f] EXCEPT !.pc = "iter",
                       !.inj = @ \o Injection(flows[f].step, now - flows[f].t0)])
    /\ UNCHANGED <<macro, recording_flag, audio_q, listen_btn, copy_btn,
                   status_lbl, txtbox, clipboard, files, nchunks, now,
                   keys_held, sessions, history, input, srv>>

\* line 116-123: the busy wait has ended (time.time() - t0 >= step["t"]) and
\* the step is injected
PlayInject(f) ==
    /\ flows[f].pc = "wait"
    /\ ~(now - flows[f].t0 < flows[f].step.t)
    /\ SetFlow(f, [flows[f] EXCEPT !.pc = "iter",
                       !.inj = @ \o Injection(flows[f].step, now - flows[f].t0)])
    /\ UNCHANGED <<macro, recording_flag, audio_q, listen_btn, copy_btn,
                   status_lbl, txtbox, clipboard, files, nchunks, now,
                   keys_held, sessions, history, input, srv>>

\* line 158-159: play_macro returned
Finish(f) ==
    /\ flows[f].pc = "fin"
    /\ listen_btn' = [listen_btn EXCEPT !.text = LISTEN]
    /\ status_lbl' = "Done. Ready"
    /\ SetFlow(f, EndFlow(flows[f], "done"))
    /\ UNCHANGED <<macro, recording_flag, audio_q, copy_btn, txtbox, clipboard,
                   files, nchunks, now, keys_held, sessions, history, input, srv>>

\* ------------------------------------------------------------ GUI callbacks
\* threading.Thread(...).start() takes the next thread not yet started
FreeFlows == {f \in Flows : flows[f].pc = "idle"}
NewFlow == CHOOSE f \in FreeFlows : \A g \in FreeFlows : f <= g

\* line 127-139: toggle_recording, called by a click on the Listen button
\* (only while the button is enabled) or by the Space key (bound on the root
\* window, line 173)
toggle_recording(by) ==
    /\ by = "button" => listen_btn.state = NORMAL
    /\ IF recording_flag
       THEN /\ recording_flag' = FALSE
            /\ listen_btn' = [listen_btn EXCEPT !.text = LISTEN]
            /\ status_lbl' = "Idle"
            /\ UNCHANGED flows
       ELSE IF macro = <<>>
            THEN /\ status_lbl' = "Record a macro first"
                 /\ UNCHANGED <<recording_flag, listen_btn, flows>>
            ELSE /\ FreeFlows # {}
                 /\ recording_flag' = TRUE
                 /\ listen_btn' = [listen_btn EXCEPT !.text = RECORDING]
                 /\ status_lbl' = "Listening"
                 /\ SetFlow(NewFlow, [IdleFlow EXCEPT !.pc = "tmp"])
    /\ UNCHANGED <<macro, audio_q, copy_btn, txtbox, clipboard, files, nchunks,
                   now, keys_held, sessions, history, input, srv>>

\* line 162-166: copy_transcript, the command of the Copy Transcript button
copy_transcript ==
    /\ copy_btn = NORMAL
    /\ txtbox # ""
    /\ clipboard' = txtbox
    /\ status_lbl' = "Transcript copied"
    /\ UNCHANGED <<macro, recording_flag, audio_q, listen_btn, copy_btn, txtbox,
                   files, flows, nchunks, now, keys_held, sessions, history, input, srv>>

\* time.time() advances
Tick ==
    /\ now < MaxTime
    /\ now' = now + 1
    /\ UNCHANGED <<macro, recording_flag, audio_q, listen_btn, copy_btn,
                   status_lbl, txtbox, clipboard, files, flows, nchunks,
                   keys_held, sessions, history, input, srv>>

\* --------------------------------------------------------- macro recorder
Sessions == 1..MaxSessions

\* a pynput listener thread: running or stopped, the events delivered to it
\* and not yet handled, and the step its callback has built and not yet appended
StoppedListener == [alive |-> FALSE, inbox |-> <<>>, rec |-> <<>>]
StartedListener == [alive |-> TRUE, inbox |-> <<>>, rec |-> <<>>]

IdleSession == [pc |-> "idle", start |-> 0, stop |-> FALSE,
                ml |-> StoppedListener, kl |-> StoppedListener]

\* a Recording Session is active: record_macro has begun and its two
\* listeners have not both stopped
SessionActive(s) ==
    sessions[s].pc = "join" /\ (sessions[s].ml.alive \/ sessions[s].kl.alive)

FreeSessions == {s \in Sessions : sessions[s].pc = "idle"}
NewSession == CHOOSE s \in FreeSessions : \A u \in FreeSessions : s <= u

\* line 179-181: the command of the Record Macro button starts a record_macro
\* thread; the button is never disabled
macro_btn ==
    /\ FreeSessions # {}
    /\ sessions' = [sessions EXCEPT ![NewSession] = [IdleSession EXCEPT !.pc = "clear"]]
    /\ UNCHANGED <<macro, recording_flag, audio_q, listen_btn, copy_btn,
                   status_lbl, txtbox, clipboard, files, flows, nchunks, now,
                   keys_held, history, input, srv>>

\* line 75-78 and 98-100: the macro is cleared, the start time taken and the
\* two listeners started
record_macro(s) ==
    /\ sessions[s].pc = "clear"
    /\ macro' = <<>>
    /\ history' = [by |-> <<>>, latest |-> s]
    /\ status_lbl' = "Recording macro"
    /\ sessions' = [sessions EXCEPT ![s] = [pc |-> "join", start |-> now, stop |-> FALSE,
                                           ml |-> StartedListener, kl |-> StartedListener]]
    /\ UNCHANGED <<recording_flag, audio_q, listen_btn, copy_btn, txtbox,
                   clipboard, files, flows, nchunks, now, keys_held, input, srv>>

\* the input events of the user: a mouse button or a key goes down or up;
\* ctrl tells whether a Ctrl key was down when the event happened
MouseEvents == {[dev |-> "mouse", key |-> "left", pressed |-> b, ctrl |-> FALSE] : b \in BOOLEAN}
Keys == {"s", "v", "ctrl_l", "ctrl_r", "shift_l", "q"}
EventsOf(keys) == {[dev |-> "key", key |-> k, pressed |-> b, ctrl |-> FALSE] : k \in keys, b \in BOOLEAN}
KeyEvents == EventsOf(Keys)

\* line 23
KILL_COMBO == {"ctrl_l", "shift_l", "q"}

CtrlDown(held) == "ctrl_l" \in held \/ "ctrl_r" \in held

\* the event is one the recorder may turn into a step (line 83, line 94)
Qualifies(e) ==
    \/ e.dev = "mouse" /\ e.pressed
    \/ e.dev = "key" /\ e.key = "v" /\ ~e.pressed

Receivers(e) == {s \in Sessions : IF e.dev = "mouse" THEN sessions[s].ml.alive
                                                      ELSE sessions[s].kl.alive}

\* steps on their way to the macro: the qualifying events a listener holds
\* (the one its callback is handling stays first in its inbox)
InFlight(l) == Len(SelectSeq(l.inbox, Qualifies))
RECURSIVE SumInFlight(_)
SumInFlight(S) ==
    IF S = {} THEN 0
    ELSE LET s == CHOOSE x \in S : TRUE
         IN  InFlight(sessions[s].ml) + InFlight(sessions[s].kl) + SumInFlight(S \ {s})

Deliver(l, e) == IF l.alive THEN [l EXCEPT !.inbox = Append(@, e)] ELSE l
HasRoom(l) == l.alive => Len(l.inbox) < MaxPending

\* the user presses a key or button that is up, or lets go of one that is
\* down; the operating system hands the event to every running listener of
\* its device: the listeners of the sessions and, for a key, the kill listener
UserEvent(e) ==
    LET ev == [e EXCEPT !.ctrl = CtrlDown(down)]
    IN  /\ e.pressed <=> e.key \notin down
        /\ \A s \in Receivers(e) :
             IF e.dev = "mouse" THEN HasRoom(sessions[s].ml) ELSE HasRoom(sessions[s].kl)
        /\ e.dev = "key" => Len(kill_inbox) < MaxPending
        /\ Qualifies(ev) =>
             Len(macro) + SumInFlight(Sessions) + Cardinality(Receivers(e)) <= MaxMacro
        /\ down' = IF e.pressed THEN down \cup {e.key} ELSE down \ {e.key}
        /\ kill_inbox' = IF e.dev = "key" THEN Append(kill_inbox, ev) ELSE kill_inbox
        /\ sessions' = [s \in Sessions |->
                          IF e.dev = "mouse"
                          THEN [sessions[s] EXCEPT !.ml = Deliver(@, ev)]
                          ELSE [sessions[s] EXCEPT !.kl = Deliver(@, ev)]]
        /\ UNCHANGED <<macro, recording_flag, audio_q, listen_btn, copy_btn,
                       status_lbl, txtbox, clipboard, files, flows, nchunks, now,
                       keys_held, history, exited, srv>>

\* line 33-37: _kill_press in the kill listener thread: a key of the combo
\* joins the held keys and, when the whole combo is held, the process exits
kill_press ==
    LET e == Head(kill_inbox)
    IN  /\ kill_inbox # <<>>
        /\ e.pressed
        /\ kill_inbox' = Tail(kill_inbox)
        /\ IF e.key \in KILL_COMBO
           THEN /\ keys_held' = keys_held \cup {e.key}
                /\ exited' = (KILL_COMBO \subseteq keys_held')
           ELSE UNCHANGED <<keys_held, exited>>
        /\ UNCHANGED <<macro, recording_flag, audio_q, listen_btn, copy_btn,
                       status_lbl, txtbox, clipboard, files, flows, nchunks, now,
                       sessions, history, down, srv>>

\* line 39-40: _kill_release
kill_release ==
    LET e == Head(kill_inbox)
    IN  /\ kill_inbox # <<>>
        /\ ~e.pressed
        /\ kill_inbox' = Tail(kill_inbox)
        /\ keys_held' = keys_held \ {e.key}
        /\ UNCHANGED <<macro, recording_flag, audio_q, listen_btn, copy_btn,
                       status_lbl, txtbox, clipboard, files, flows, nchunks, now,
                       sessions, history, down, exited, srv>>

\* line 80-84: on_click up to the evaluation of the step; returning False
\* stops the mouse listener
on_click(s) ==
    LET ml == sessions[s].ml
        e == Head(ml.inbox)
    IN  /\ ml.alive /\ ml.inbox # <<>> /\ ml.rec = <<>>
        /\ sessions' = [sessions EXCEPT ![s].ml =
              IF sessions[s].stop THEN StoppedListener
              ELSE IF e.pressed
                   THEN [ml EXCEPT !.rec = <<[t |-> now - sessions[s].start,
                                              type |-> "mouse",
                                              data |-> <<"x", "y", e.key>>]>>]
                   ELSE [ml EXCEPT !.inbox = Tail(@)]]
        /\ UNCHANGED <<macro, recording_flag, audio_q, listen_btn, copy_btn,
                       status_lbl, txtbox, clipboard, files, flows, nchunks,
                       now, keys_held, history, input, srv>>

\* line 84: macro.append of the step on_click built
click_append(s) ==
    LET ml == sessions[s].ml
    IN  /\ ml.rec # <<>>
        /\ macro' = Append(macro, ml.rec[1])
        /\ history' = [history EXCEPT !.by = Append(@, s)]
        /\ sessions' = [sessions EXCEPT ![s].ml.rec = <<>>, ![s].ml.inbox = Tail(@)]
        /\ UNCHANGED <<recording_flag, audio_q, listen_btn, copy_btn, status_lbl,
                       txtbox, clipboard, files, flows, nchunks, now, keys_held, input, srv>>

\* line 86-90: on_press; the S key sets the stop flag and stops the keyboard
\* listener, any other key joins the held keys
on_press(s) ==
    LET kl == sessions[s].kl
        e == Head(kl.inbox)
    IN  /\ kl.alive /\ kl.inbox # <<>> /\ kl.rec = <<>>
        /\ e.pressed
        /\ IF e.key = "s"
           THEN /\ sessions' = [sessions EXCEPT ![s].stop = TRUE,
                                                ![s].kl = StoppedListener]
                /\ UNCHANGED keys_held
           ELSE /\ sessions' = [sessions EXCEPT ![s].kl.inbox = Tail(@)]
                /\ keys_held' = keys_held \cup {e.key}
        /\ UNCHANGED <<macro, recording_flag, audio_q, listen_btn, copy_btn,
                       status_lbl, txtbox, clipboard, files, flows, nchunks,
                       now, history, input, srv>>

\* line 92-96: on_release up to the evaluation of the step: the V key with a
\* Ctrl key among the held keys yields a hotkey step; any other release only
\* leaves the held keys
on_release(s) ==
    LET kl == sessions[s].kl
        e == Head(kl.inbox)
    IN  /\ kl.alive /\ kl.inbox # <<>> /\ kl.rec = <<>>
        /\ ~e.pressed
        /\ IF e.key = "v" /\ ("ctrl_l" \in keys_held \/ "ctrl_r" \in keys_held)
           THEN /\ sessions' = [sessions EXCEPT ![s].kl.rec =
                                   <<[t |-> now - sessions[s].start,
                                      type |-> "hotkey",
                                      data |-> <<"ctrl", "v">>]>>]
                /\ UNCHANGED keys_held
           ELSE /\ sessions' = [sessions EXCEPT ![s].kl.inbox = Tail(@)]
                /\ keys_held' = keys_held \ {e.key}
        /\ UNCHANGED <<macro, recording_flag, audio_q, listen_btn, copy_btn,
                       status_lbl, txtbox, clipboard, files, flows, nchunks,
                       now, history, input, srv>>

\* line 95-96: macro.append of the hotkey step, then the key leaves the held keys
release_append(s) ==
    LET kl == sessions[s].kl
    IN  /\ kl.rec # <<>>
        /\ macro' = Append(macro, kl.rec[1])
        /\ history' = [history EXCEPT !.by = Append(@, s)]
        /\ keys_held' = keys_held \ {Head(kl.inbox).key}
        /\ sessions' = [sessions EXCEPT ![s].kl.rec = <<>>, ![s].kl.inbox = Tail(@)]
        /\ UNCHANGED <<recording_flag, audio_q, listen_btn, copy_btn, status_lbl,
                       txtbox, clipboard, files, flows, nchunks, now, input, srv>>

\* line 100-107: both listeners have stopped, the joins return and the result
\* is reported
report_macro(s) ==
    /\ sessions[s].pc = "join"
    /\ ~sessions[s].ml.alive /\ ~sessions[s].kl.alive
    /\ IF macro # <<>>
       THEN /\ listen_btn' = [listen_btn EXCEPT !.state = NORMAL]
            /\ copy_btn' = NORMAL
            /\ status_lbl' = "Macro captured"
       ELSE /\ status_lbl' = "No steps captured"
            /\ UNCHANGED <<listen_btn, copy_btn>>
    /\ sessions' = [sessions EXCEPT ![s].pc = "done"]
    /\ UNCHANGED <<macro, recording_flag, audio_q, txtbox, clipboard, files,
                   flows, nchunks, now, keys_held, history, input, srv>>

\* --------------------------------------------- transcription service (main.py)
Requests == 1..MaxRequests

\* the client state, which the service never touches
client == <<macro, recording_flag, audio_q, listen_btn, copy_btn, status_lbl,
            txtbox, clipboard, files, flows, nchunks, now, keys_held, sessions,
            history, input>>

\* strings the service computes with are sequences of characters
Filenames == { <<"a", ".", "w">>, <<"a">>, <<".", "w">>, <<"a", ".">> }
Transcriptions == { <<" ", "h", "i">>, <<"h", "i", " ">>, <<" ">> }

\* os.path.splitext(name)[1] (line 26): the extension starts at the last dot,
\* unless only dots come before it
LastDot(name) ==
    LET dots == {i \in 1..Len(name) : name[i] = "."}
    IN  IF dots = {} THEN 0 ELSE CHOOSE i \in dots : \A j \in dots : j <= i
SplitExt(name) ==
    LET d == LastDot(name)
    IN  IF d > 0 /\ (\E j \in 1..(d - 1) : name[j] # ".")
        THEN SubSeq(name, d, Len(name))
        ELSE <<>>

\* str.strip() (line 35)
RECURSIVE LStrip(_)
LStrip(t) == IF t # <<>> /\ Head(t) = " " THEN LStrip(Tail(t)) ELSE t
RECURSIVE RStrip(_)
RStrip(t) == IF t # <<>> /\ t[Len(t)] = " " THEN RStrip(SubSeq(t, 1, Len(t) - 1)) ELSE t
Strip(t) == RStrip(LStrip(t))

NoReply == [status |-> 0, isjson |-> FALSE, obj |-> {}]
IdleHandler == [pc |-> "idle", suffix |-> <<>>, reply |-> NoReply]
NoTemp == [exists |-> FALSE, suffix |-> <<>>, copied |-> FALSE]

\* transcribe_audio is an async function that never awaits: the event loop
\* runs one call of it from start to end before it starts the next
LoopBusy == \E q \in Requests : handlers[q].pc \notin {"idle", "done"}
FreeRequests == {q \in Requests : handlers[q].pc = "idle"}
NewRequest == CHOOSE q \in FreeRequests : \A u \in FreeRequests : q <= u

\* line 25-26: a request arrives and the suffix of its file name is taken
Arrive(name) ==
    /\ ~LoopBusy
    /\ FreeRequests # {}
    /\ handlers' = [handlers EXCEPT ![NewRequest] =
                      [IdleHandler EXCEPT !.pc = "mktemp", !.suffix = SplitExt(name)]]
    /\ UNCHANGED <<server_tmp, client>>

\* line 27-28: NamedTemporaryFile(delete=False, suffix=suffix)
ServerMakeTemp(q) ==
    /\ handlers[q].pc = "mktemp"
    /\ server_tmp' = [server_tmp EXCEPT ![q] =
                        [exists |-> TRUE, suffix |-> handlers[q].suffix, copied |-> FALSE]]
    /\ handlers' = [handlers EXCEPT ![q].pc = "copy"]
    /\ UNCHANGED client

\* line 29-32: the upload is copied into the temporary file
CopyUpload(q) ==
    /\ handlers[q].pc = "copy"
    /\ server_tmp' = [server_tmp EXCEPT ![q].copied = TRUE]
    /\ handlers' = [handlers EXCEPT ![q].pc = "transcribe"]
    /\ UNCHANGED client

\* line 29-32: shutil.copyfileobj raises; the finally closes the upload, the
\* with block closes the temporary file and the exception leaves the
\* function: the framework answers 500 with a plain-text body
CopyUploadFail(q) ==
    /\ handlers[q].pc = "copy"
    /\ handlers' = [handlers EXCEPT ![q].pc = "done",
                      ![q].reply = [status |-> 500, isjson |-> FALSE, obj |-> {}]]
    /\ UNCHANGED <<server_tmp, client>>

\* line 39-41: finally: if os.path.exists(temp_path): os.remove(temp_path)
RemoveTemp(tmp) == IF tmp.exists THEN NoTemp ELSE tmp

\* line 33-36, 39-41: the model transcribes; the stripped text is returned
\* and the temporary file removed
Transcribe(q, text) ==
    /\ handlers[q].pc = "transcribe"
    /\ handlers' = [handlers EXCEPT ![q].pc = "done",
                      ![q].reply = [status |-> 200, isjson |-> TRUE,
                                    obj |-> {<<"text", Strip(text)>>}]]
    /\ server_tmp' = [server_tmp EXCEPT ![q] = RemoveTemp(@)]
    /\ UNCHANGED client

\* line 33-34, 37-41: model.transcribe raises; HTTPException(500) with the
\* detail, and the temporary file removed
TranscribeFail(q) ==
    /\ handlers[q].pc = "transcribe"
    /\ handlers' = [handlers EXCEPT ![q].pc = "done",
                      ![q].reply = [status |-> 500, isjson |-> TRUE,
                                    obj |-> {<<"detail", "Transcription failed">>}]]
    /\ server_tmp' = [server_tmp EXCEPT ![q] = RemoveTemp(@)]
    /\ UNCHANGED client

InitServer ==
    /\ handlers = [q \in Requests |-> IdleHandler]
    /\ server_tmp = [q \in Requests |-> NoTemp]

\* --------------------------------------------------------- specification
Init ==
    /\ macro = <<>>
    /\ history = [by |-> <<>>, latest |-> 0]
    /\ recording_flag = FALSE
    /\ audio_q = <<>>
    /\ listen_btn = [text |-> LISTEN, state |-> DISABLED]
    /\ copy_btn = DISABLED
    /\ status_lbl = "Idle"
    /\ txtbox = ""
    /\ clipboard = ""
    /\ files = [f \in Flows |-> NoFile]
    /\ flows = [f \in Flows |-> IdleFlow]
    /\ nchunks = 0
    /\ now = 0
    /\ keys_held = {}
    /\ sessions = [s \in Sessions |-> IdleSession]
    /\ down = {}
    /\ kill_inbox = <<>>
    /\ exited = FALSE
    /\ InitServer

\* the threads of the audio cycle: capture, upload, display, playback
FlowStep(f) ==
    \/ MakeTemp(f)
    \/ OpenStream(f)
    \/ OpenStreamFail(f)
    \/ AudioCallback(f)
    \/ WhileFlag(f)
    \/ GetChunk(f)
    \/ GetTimeout(f)
    \/ EndCapture(f)
    \/ Cancelled(f)
    \/ \E r \in Responses : SendAudio(f, r)
    \/ RemoveWav(f)
    \/ ShowTranscript(f)
    \/ PlayStart(f)
    \/ PlayNext(f)
    \/ PlayInject(f)
    \/ Finish(f)

\* the threads of a recording session: record_macro and its two listeners
SessionStep(s) ==
    \/ record_macro(s)
    \/ on_click(s)
    \/ click_append(s)
    \/ on_press(s)
    \/ on_release(s)
    \/ release_append(s)
    \/ report_macro(s)

\* the service
ServerStep ==
    \/ \E name \in Filenames : Arrive(name)
    \/ \E q \in Requests :
         \/ ServerMakeTemp(q)
         \/ CopyUpload(q)
         \/ CopyUploadFail(q)
         \/ \E text \in Transcriptions : Transcribe(q, text)
         \/ TranscribeFail(q)

\* line 42: the kill listener runs from the start of the program
KillStep == kill_press \/ kill_release

Next ==
    \/ ServerStep
    \/ /\ ~exited
       /\ \/ \E by \in {"button", "space"} : toggle_recording(by)
          \/ copy_transcript
          \/ macro_btn
          \/ Tick
          \/ \E e \in MouseEvents \cup KeyEvents : UserEvent(e)
          \/ KillStep
          \/ \E s \in Sessions : SessionStep(s)
          \/ \E f \in Flows : FlowStep(f)

Spec == Init /\ [][Next]_vars

\* The recorder alone: the user records macros and never starts an audio cycle.
\* Here the user clicks, types V and S, and waits until every listener has
\* taken the previous event.
RecorderEvents == MouseEvents \cup EventsOf({"s", "v"})

Paced ==
    /\ kill_inbox = <<>>
    /\ \A s \in Sessions : sessions[s].ml.inbox = <<>> /\ sessions[s].kl.inbox = <<>>

NextRecorder ==
    \/ macro_btn
    \/ Tick
    \/ \E e \in RecorderEvents : Paced /\ UserEvent(e)
    \/ KillStep
    \/ \E s \in Sessions :
         \/ record_macro(s)
         \/ on_click(s)
         \/ click_append(s)
         \/ on_press(s)
         \/ on_release(s)
         \/ report_macro(s)

SpecRecorder == Init /\ [][NextRecorder]_vars

\* One recording session, started at any moment, and the keys of the paste
\* combination: the user clicks and types as fast as the listeners' inboxes
\* allow and never presses the stop key.
NoSession == \A s \in Sessions : sessions[s].pc = "idle"
PasteEvents == MouseEvents \cup EventsOf({"v", "ctrl_l", "ctrl_r"})

\* every listener that receives the event has taken the one before
Prompt(e) ==
    /\ e.dev = "key" => kill_inbox = <<>>
    /\ \A s \in Receivers(e) :
         IF e.dev = "mouse" THEN sessions[s].ml.inbox = <<>> ELSE sessions[s].kl.inbox = <<>>

NextKeys ==
    \/ NoSession /\ macro_btn
    \/ Tick
    \/ \E e \in PasteEvents : Prompt(e) /\ UserEvent(e)
    \/ KillStep
    \/ \E s \in Sessions :
         \/ record_macro(s)
         \/ on_click(s)
         \/ click_append(s)
         \/ on_press(s)
         \/ on_release(s)
         \/ release_append(s)

SpecKeys == Init /\ [][NextKeys]_vars

\* One recording session and the keys of the kill combination.
KillEvents == EventsOf(KILL_COMBO)

NextKill ==
    \/ ~exited /\ NoSession /\ macro_btn
    \/ \E e \in KillEvents : ~exited /\ UserEvent(e)
    \/ ~exited /\ kill_press
    \/ ~exited /\ kill_release
    \/ \E s \in Sessions :
         \/ ~exited /\ record_macro(s)
         \/ ~exited /\ on_press(s)
         \/ ~exited /\ on_release(s)

SpecKill == Init /\ [][NextKill]_vars

\* The state a finished recording session leaves (report_macro, line 102-105),
\* with the clock read from the end of that session: the macro holds the
\* recorded steps, the Listen and Copy buttons are enabled.
ClickStep(t) == [t |-> t, type |-> "mouse", data |-> <<"x", "y", "left">>]
PasteStep(t) == [t |-> t, type |-> "hotkey", data |-> <<"ctrl", "v">>]
RecordedMacros == { <<ClickStep(0)>>, <<ClickStep(0), PasteStep(1)>> }

InitRecorded ==
    /\ macro \in RecordedMacros
    /\ history = [by |-> [i \in 1..Len(macro) |-> 1], latest |-> 1]
    /\ recording_flag = FALSE
    /\ audio_q = <<>>
    /\ listen_btn = [text |-> LISTEN, state |-> NORMAL]
    /\ copy_btn = NORMAL
    /\ status_lbl = "Macro captured"
    /\ txtbox = ""
    /\ clipboard = ""
    /\ files = [f \in Flows |-> NoFile]
    /\ flows = [f \in Flows |-> IdleFlow]
    /\ nchunks = 0
    /\ now = 0
    /\ keys_held = {}
    /\ sessions = [s \in Sessions |->
                     IF s = 1 THEN [IdleSession EXCEPT !.pc = "done", !.stop = TRUE]
                              ELSE IdleSession]
    /\ down = {}
    /\ kill_inbox = <<>>
    /\ exited = FALSE
    /\ InitServer

\* The audio cycles alone: a macro has been recorded and the user only toggles
\* Listen and copies the transcript.
NextAudio ==
    \/ \E by \in {"button", "space"} : toggle_recording(by)
    \/ copy_transcript
    \/ Tick
    \/ \E f \in Flows : FlowStep(f)

SpecAudio == InitRecorded /\ [][NextAudio]_vars

\* The audio cycles while the user also clicks Record Macro: a new session
\* begins (and clears the macro) but no input event reaches its listeners.
NextPlayback ==
    \/ \E by \in {"button", "space"} : toggle_recording(by)
    \/ Tick
    \/ macro_btn
    \/ \E s \in Sessions : record_macro(s)
    \/ \E f \in Flows : FlowStep(f)

SpecPlayback == InitRecorded /\ [][NextPlayback]_vars

\* The service alone.
SpecServer == Init /\ [][ServerStep]_vars

\* ------------------------------------------------------------------ claims
Range(q) == {q[i] : i \in 1..Len(q)}

\* C1: at most one thread is inside the capture loop of record_until_toggle
\* at any time.
OneCaptureThread == Cardinality({f \in Flows : InCaptureLoop(f)}) <= 1

\* C2: at most one thread is executing play_macro at any time.
OnePlaybackThread == Cardinality({f \in Flows : InPlayMacro(f)}) <= 1

\* C3: at most one Recording Session (a record_macro call whose listeners
\* have not both stopped) is active at any time.
OneRecordingSession == Cardinality({s \in Sessions : SessionActive(s)}) <= 1

\* C4: once a record_macro call has begun, the macro holds only steps that
\* the session begun last has appended, none of an earlier session.
OnlyLatestSessionSteps == \A i \in 1..Len(history.by) : history.by[i] = history.latest

\* C5: when play_macro returns after starting on a non-empty macro, it has
\* made one injection for every step the macro held when it started.
InjectsAll(fl) ==
    /\ Len(fl.inj) = Len(fl.snap)
    /\ \A i \in 1..Len(fl.snap) :
         Injection(fl.snap[i], fl.inj[i].at) = <<fl.inj[i]>>
PlaybackRunsToCompletion ==
    \A f \in Flows : (flows[f].pc = "fin" /\ flows[f].snap # <<>>) => InjectsAll(flows[f])

\* C6: when record_until_toggle returns, the queue is empty and every chunk
\* the callback of its stream enqueued is in the written waveform.
ChunksOutside(f) ==
    Range(audio_q)
      \cup UNION {Range(flows[g].frames) : g \in Flows \ {f}}
      \cup UNION {Range(files[g].data) : g \in Flows \ {f}}
CaptureDrainsQueue ==
    [][\A f \in Flows : EndCapture(f) =>
          /\ audio_q' = <<>>
          /\ \A c \in ChunksOutside(f) \cup Range(flows[f].frames) :
                c.src = f => c \in Range(files'[f].data)]_vars

\* C7: whatever the upload brings back, a failure yields the sentinel "<err>"
\* as the transcript and the cycle displays a transcript before it ends.
UploadFailed(r) == ~r.arrived \/ ~r.ok \/ ~r.isjson \/ ~(\E p \in r.obj : p[1] = "text")
UploadFailureShowsSentinel ==
    \A f \in Flows :
        flows[f].sent =>
          /\ flows[f].pc # "dead"
          /\ (flows[f].pc \in {"remove", "show", "play", "iter", "wait", "fin"}
                /\ UploadFailed(flows[f].r)) => flows[f].txt = "<err>"
          /\ flows[f].pc \in {"play", "iter", "wait", "fin", "done"} => flows[f].shown

\* C8: when a process_audio_flow thread has ended, by any path, the temporary
\* file it created does not exist.
ClientTempRemoved == \A f \in Flows : Ended(f) => ~files[f].exists

\* C9: when the /transcribe handler has finished, by any path, the temporary
\* file it created does not exist.
ServerTempRemoved == \A q \in Requests : handlers[q].pc = "done" => ~server_tmp[q].exists

\* C10: record_until_toggle returns False exactly when it collected no chunk,
\* and then no audio file of the cycle exists.
NoChunksNoFile ==
    [][\A f \in Flows : EndCapture(f) =>
          /\ (flows'[f].pc = "cancel") <=> (flows[f].frames = <<>>)
          /\ flows'[f].pc = "cancel" => ~files'[f].exists]_vars

\* C11: when an audio cycle fails (the input stream cannot be opened, no
\* samples were captured, the upload fails) and its thread ends, the flag is
\* False and the Listen button shows the idle label.
CycleFailed(f) ==
    \/ OpenStreamFail(f)
    \/ Cancelled(f)
    \/ flows[f].pc = "send" /\ flows'[f].pc = "dead"
    \/ Finish(f) /\ flows[f].txt = "<err>"
FailureRevertsToIdle ==
    [][\A f \in Flows : CycleFailed(f) =>
          ~recording_flag' /\ listen_btn'.text = LISTEN]_vars

\* C12: while a session records, the release of V with a Ctrl key down
\* yields a step, and so does a mouse press taken before the stop key,
\* whatever the held-keys set holds at that moment.
PasteReleased(s) ==
    /\ on_release(s)
    /\ Head(sessions[s].kl.inbox).key = "v"
    /\ Head(sessions[s].kl.inbox).ctrl

ClickPressed(s) ==
    /\ on_click(s)
    /\ Head(sessions[s].ml.inbox).pressed
    /\ ~sessions[s].stop

EveryQualifyingEventRecorded ==
    [][\A s \in Sessions :
          /\ PasteReleased(s) => sessions'[s].kl.rec # <<>>
          /\ ClickPressed(s) => sessions'[s].ml.rec # <<>>]_vars

\* C13: play_macro on a non-empty macro does not return before the time
\* since its start has reached the offset of the last step of the macro it
\* started on.
PlaybackLastsToLastOffset ==
    \A f \in Flows :
        (flows[f].pc = "fin" /\ flows[f].snap # <<>>) =>
            now - flows[f].t0 >= flows[f].snap[Len(flows[f].snap)].t

\* C14: play_macro sets the clipboard to the text when it begins to iterate,
\* the iterator yields the steps in list order, and an injection is made only
\* from the wait on its step, once the time since the start of the playback
\* has reached the step's offset: move-and-click for a mouse step, the
\* hotkey for a hotkey step.
LastInjection(fl) == fl.inj[Len(fl.inj)]

StepInjected(f) ==
    /\ flows[f].pc = "wait"
    /\ now - flows[f].t0 >= flows[f].step.t
    /\ Len(flows'[f].inj) = Len(flows[f].inj) + 1
    /\ SubSeq(flows'[f].inj, 1, Len(flows[f].inj)) = flows[f].inj
    /\ LastInjection(flows'[f]).data = flows[f].step.data
    /\ LastInjection(flows'[f]).at = now - flows[f].t0
    /\ LastInjection(flows'[f]).op =
          IF flows[f].step.type = "mouse" THEN "moveTo+click" ELSE "hotkey"

InjectsInOrderOnTime ==
    [][\A f \in Flows :
          /\ (flows[f].pc = "play" /\ flows'[f].pc = "iter") =>
                (clipboard' = flows[f].txt /\ flows'[f].inj = <<>> /\ flows'[f].it = 0)
          /\ (flows[f].pc = "iter" /\ flows'[f].pc = "wait") =>
                (flows'[f].it = flows[f].it + 1 /\ flows'[f].step = macro[flows'[f].it])
          /\ Len(flows'[f].inj) > Len(flows[f].inj) => StepInjected(f)]_vars

PlayedClickThenPaste ==
    \E f \in Flows :
        /\ flows[f].pc = "fin"
        /\ Len(flows[f].inj) = 2
        /\ flows[f].inj[1].op = "moveTo+click"
        /\ flows[f].inj[2].op = "hotkey"
        /\ flows[f].inj[2].at >= 1

\* C15: play_macro called while the macro is empty returns at once: the
\* clipboard stays as it is and nothing is injected.
EmptyMacroPlaysNothing ==
    [][\A f \in Flows :
          (flows[f].pc = "play" /\ macro = <<>> /\ flows'[f] # flows[f]) =>
              /\ clipboard' = clipboard
              /\ flows'[f].pc = "fin"
              /\ flows'[f].inj = <<>>]_vars

PlayedEmptyMacro ==
    \E f \in Flows :
        /\ flows[f].pc = "fin"
        /\ flows[f].snap = <<>>
        /\ flows[f].txt # clipboard

\* C16: when left Ctrl, left Shift and Q are all down and every keyboard
\* listener has handled every event, the process has exited.
KeysHandled ==
    /\ kill_inbox = <<>>
    /\ \A s \in Sessions : sessions[s].kl.inbox = <<>>

KillComboExits ==
    (KILL_COMBO \subseteq down /\ KeysHandled) => exited

\* C17: once 's' has been pressed in a session and no input event is left to
\* handle, both listeners have stopped (so that record_macro returns).
Quiet(l) == l.inbox = <<>> /\ l.rec = <<>>
StopKeyEndsSession ==
    \A s \in Sessions :
        (sessions[s].stop /\ Quiet(sessions[s].ml) /\ Quiet(sessions[s].kl)) =>
            (~sessions[s].ml.alive /\ ~sessions[s].kl.alive)

\* C18: the waveform a capture session writes holds only chunks that the
\* callback of its own stream enqueued during that session.
AudioSessionsIsolated ==
    \A f \in Flows : \A c \in Range(files[f].data) : c.src = f

\* C19: the offsets of the macro are non-decreasing in list order.
OffsetsNonDecreasing ==
    \A i \in 1..Len(macro) : \A j \in 1..Len(macro) : i < j => macro[i].t <= macro[j].t

\* C20: whenever no thread has a label update left to apply, the Listen
\* button shows the recording label if and only if the flag is True.
LabelUpdatePending(f) == flows[f].pc \in {"cancel", "fin"}
LabelAgreesWithFlag ==
    (\A f \in Flows : ~LabelUpdatePending(f)) =>
        (listen_btn.text = RECORDING <=> recording_flag)

====
